---- MODULE Spec2Model ----
(***************************************************************************)
(* Rule engine of the batik classifier (src/app.py): the rule table, the   *)
(* condition matcher match_conditions, the loader load_rules, the engine   *)
(* backward_chain, the seed rules and the add-rule / delete-rule handlers. *)
(*                                                                         *)
(* Text that the code inspects character by character (the specifiers      *)
(* "any", "gte:T", "lte:T", and the output of str()) is a sequence of      *)
(* one-character strings, so that startswith, split and float are computed.*)
(* Keys, conclusions and explanation lines are only compared for equality  *)
(* by the code and are plain strings.                                       *)
(***************************************************************************)
EXTENDS Integers, Sequences, FiniteSets, TLC

VARIABLES table, requests, resp, call, mc

vars == <<table, requests, resp, call, mc>>

----------------------------------------------------------------------------
(* Bounds of the exploration. *)

\* defect_count ranges over -1 .. MaxDefect
MaxDefect == 4
\* thresholds T of "gte:T" / "lte:T" range over -1 .. MaxThreshold
MaxThreshold == 3
\* number of add-rule / delete-rule requests served
MaxAdmin == 2
\* number of rows of a database that existed before start-up
MaxStored == 2

DefectCounts == (0 - 1)..MaxDefect
Thresholds == (0 - 1)..MaxThreshold

----------------------------------------------------------------------------
(* Python values: bool, int, str and None, one record shape for all. *)

PyBool(b) == [t |-> "bool", b |-> b, n |-> 0, s |-> <<>>]
PyInt(n) == [t |-> "int", b |-> FALSE, n |-> n, s |-> <<>>]
PyStr(s) == [t |-> "str", b |-> FALSE, n |-> 0, s |-> s]
PyNone == [t |-> "None", b |-> FALSE, n |-> 0, s |-> <<>>]

\* Python's ==/!= between bool and int values: True == 1 and False == 0.
PyNum(v) == IF v.t = "bool" THEN (IF v.b THEN 1 ELSE 0) ELSE v.n

PyEq(a, b) ==
    IF a.t \in {"bool", "int"} /\ b.t \in {"bool", "int"}
    THEN PyNum(a) = PyNum(b)
    ELSE a = b

\* facts.get(k) and facts.get(k, default)
Get(facts, k, default) == IF k \in DOMAIN facts THEN facts[k] ELSE default

----------------------------------------------------------------------------
(* str() and float() on the texts the matcher meets. *)

Digits == <<"0", "1", "2", "3", "4", "5", "6", "7", "8", "9">>

IsDigit(c) == \E i \in 1..10 : Digits[i] = c

DigitVal(c) == (CHOOSE i \in 1..10 : Digits[i] = c) - 1

RECURSIVE NatToStr(_)
NatToStr(n) ==
    IF n < 10 THEN <<Digits[n + 1]>>
    ELSE NatToStr(n \div 10) \o <<Digits[(n % 10) + 1]>>

\* str(v) for v a bool, an int, a str or None
Str(v) ==
    CASE v.t = "bool" -> IF v.b THEN <<"T", "r", "u", "e">>
                         ELSE <<"F", "a", "l", "s", "e">>
      [] v.t = "int" -> IF v.n < 0 THEN <<"-">> \o NatToStr(0 - v.n)
                        ELSE NatToStr(v.n)
      [] v.t = "str" -> v.s
      [] OTHER -> <<"N", "o", "n", "e">>

RECURSIVE DigitsToNat(_, _)
DigitsToNat(s, acc) ==
    IF s = <<>> THEN acc
    ELSE DigitsToNat(Tail(s), (acc * 10) + DigitVal(Head(s)))

\* float(s), for the texts of the model: an optional sign and decimal digits
\* give the number; anything else raises ValueError (ok = FALSE).
Float(s) ==
    LET signed == s # <<>> /\ Head(s) \in {"-", "+"}
        body == IF signed THEN Tail(s) ELSE s
        good == body # <<>> /\ \A i \in 1..Len(body) : IsDigit(body[i])
    IN  IF ~good THEN [ok |-> FALSE, n |-> 0]
        ELSE [ok |-> TRUE,
              n |-> IF signed /\ Head(s) = "-" THEN 0 - DigitsToNat(body, 0)
                    ELSE DigitsToNat(body, 0)]

StartsWith(s, p) == Len(s) >= Len(p) /\ SubSeq(s, 1, Len(p)) = p

\* expected.split(":", 1)[1]: the text after the first colon
RECURSIVE AfterColon(_)
AfterColon(s) ==
    IF Head(s) = ":" THEN Tail(s) ELSE AfterColon(Tail(s))

ANY == <<"a", "n", "y">>
GTE == <<"g", "t", "e", ":">>
LTE == <<"l", "t", "e", ":">>

----------------------------------------------------------------------------
(* match_conditions *)

\* the comparison of the "gte:" branch: the entry fails when val < threshold
GteHoldsStrict(val, threshold) == val > threshold

GteHolds(val, threshold) == ~(val < threshold)

\* the comparison of the "lte:" branch: the entry fails when val > threshold
LteHolds(val, threshold) == ~(val > threshold)

\* the loop body with a last branch that compares any other expected value
\* (a number, null) with the fact
EntryHoldsOtherCompared(k, expected, facts) ==
    IF expected = PyStr(ANY) THEN TRUE
    ELSE IF expected.t = "bool"
    THEN ~(Get(facts, k, PyNone) = PyNone \/ ~PyEq(Get(facts, k, PyNone), expected))
    ELSE IF expected.t = "str"
    THEN IF StartsWith(expected.s, GTE)
         THEN LET val == Float(Str(Get(facts, k, PyInt(0))))
                  threshold == Float(AfterColon(expected.s))
              IN  val.ok /\ threshold.ok /\ GteHolds(val.n, threshold.n)
         ELSE IF StartsWith(expected.s, LTE)
         THEN LET val == Float(Str(Get(facts, k, PyInt(0))))
                  threshold == Float(AfterColon(expected.s))
              IN  val.ok /\ threshold.ok /\ LteHolds(val.n, threshold.n)
         ELSE Str(Get(facts, k, PyNone)) = expected.s
    ELSE PyEq(Get(facts, k, PyNone), expected)

\* One pass of the loop body for the entry (k, expected): TRUE when the loop
\* goes on to the next entry, FALSE when it returns False.
EntryHolds(k, expected, facts) ==
    IF expected = PyStr(ANY) THEN TRUE
    ELSE IF expected.t = "bool"
    THEN ~(Get(facts, k, PyNone) = PyNone \/ ~PyEq(Get(facts, k, PyNone), expected))
    ELSE IF expected.t = "str"
    THEN IF StartsWith(expected.s, GTE)
         THEN LET val == Float(Str(Get(facts, k, PyInt(0))))
                  threshold == Float(AfterColon(expected.s))
              IN  val.ok /\ threshold.ok /\ GteHolds(val.n, threshold.n)
         ELSE IF StartsWith(expected.s, LTE)
         THEN LET val == Float(Str(Get(facts, k, PyInt(0))))
                  threshold == Float(AfterColon(expected.s))
              IN  val.ok /\ threshold.ok /\ LteHolds(val.n, threshold.n)
         ELSE Str(Get(facts, k, PyNone)) = expected.s
    ELSE TRUE

\* A parsed conditions value: a JSON object is the sequence of its entries in
\* document order; any other JSON value has no .items().
CondObj(items) == [t |-> "obj", items |-> items]
CondOther(tag) == [t |-> tag, items |-> <<>>]
Entry(k, v) == [k |-> k, v |-> v]

\* match_conditions(conditions, facts): raised is the AttributeError of
\* conditions.items() on a value that is not a dict.
MatchConditions(conditions, facts) ==
    IF conditions.t # "obj" THEN [raised |-> TRUE, value |-> FALSE]
    ELSE [raised |-> FALSE,
          value |-> \A i \in 1..Len(conditions.items) :
                        EntryHolds(conditions.items[i].k, conditions.items[i].v, facts)]

----------------------------------------------------------------------------
(* The stored texts (columns conditions and explanation) and json. *)

\* json.dumps(v): a text that json.loads reads back as v
JsonDumps(v) == [ok |-> TRUE, v |-> v, raw |-> "json"]

\* a conditions text that is not JSON
BadCondText(raw) == [ok |-> FALSE, v |-> CondOther("null"), raw |-> raw]

\* an explanation text that is not JSON (raw = "": the column is NULL or empty)
BadExpText(raw) == [ok |-> FALSE, v |-> <<>>, raw |-> raw]

\* json.loads(text): ok = FALSE is the exception
JsonLoads(text) == [ok |-> text.ok, v |-> text.v]

\* the truth value of a text: None and "" are false
Truthy(text) == text.ok \/ text.raw # ""

----------------------------------------------------------------------------
(* load_rules *)

RuleTypes == {"technique", "quality"}

\* the try/except around json.loads(r.conditions)
LoadCond(text) ==
    IF JsonLoads(text).ok THEN JsonLoads(text).v ELSE CondObj(<<>>)

\* the try/except around json.loads(r.explanation)
LoadExp(text) ==
    IF Truthy(text)
    THEN IF JsonLoads(text).ok THEN JsonLoads(text).v ELSE <<text.raw>>
    ELSE <<"">>

\* the dict appended for row r
RuleOf(r) ==
    [id |-> r.id, priority |-> r.priority, conditions |-> LoadCond(r.conditions),
     conclusion |-> r.conclusion, explanation |-> LoadExp(r.explanation)]

\* filter_by(rule_type=rule_type)
RowsOfType(rows, rule_type) ==
    {rows[i] : i \in {j \in 1..Len(rows) : rows[j].rule_type = rule_type}}

MinPriority(S) == {r \in S : \A q \in S : r.priority <= q.priority}

\* order_by(Rule.priority.asc()): the query names no second sort key, so rows
\* of equal priority come in an order the database chooses.
RECURSIVE OrderByPriority(_)
OrderByPriority(S) ==
    IF S = {} THEN {<<>>}
    ELSE UNION {{<<r>> \o rest : rest \in OrderByPriority(S \ {r})} : r \in MinPriority(S)}

MapRuleOf(rows) == [i \in 1..Len(rows) |-> RuleOf(rows[i])]

\* load_rules(rule_type): the lists it may return
LoadRules(rows, rule_type) ==
    {MapRuleOf(o) : o \in OrderByPriority(RowsOfType(rows, rule_type))}

----------------------------------------------------------------------------
(* backward_chain *)

Undetermined ==
    [status |-> "ok", conclusion |-> "Undetermined",
     explanation |-> <<"No rule matched the given facts.">>, rule |-> 0]

\* the call ended in the exception match_conditions raised
Raised ==
    [status |-> "error", conclusion |-> "", explanation |-> <<>>, rule |-> 0]

NoResult ==
    [status |-> "none", conclusion |-> "", explanation |-> <<>>, rule |-> 0]

\* enriched_facts = dict(facts); enriched_facts["defect_count"] = defect_count
Enrich(facts, defect_count) ==
    [k \in (DOMAIN facts) \cup {"defect_count"} |->
        IF k = "defect_count" THEN PyInt(defect_count) ELSE facts[k]]

\* the for loop over the loaded rules; rule is the id of the rule returned
RECURSIVE BackwardChain(_, _, _)
BackwardChain(rules, facts, defect_count) ==
    IF rules = <<>> THEN Undetermined
    ELSE LET r == Head(rules)
             m == MatchConditions(r.conditions, Enrich(facts, defect_count))
         IN  IF m.raised THEN Raised
             ELSE IF m.value
             THEN [status |-> "ok", conclusion |-> r.conclusion,
                   explanation |-> r.explanation, rule |-> r.id]
             ELSE BackwardChain(Tail(rules), facts, defect_count)

----------------------------------------------------------------------------
(* seed_default_rules *)

TechniqueRules ==
    << [rule_type |-> "technique", priority |-> 10,
        conditions |-> CondObj(<<Entry("strokes_irregular", PyBool(TRUE)),
                                 Entry("wax_visible", PyBool(TRUE)),
                                 Entry("pattern_repeated", PyBool(FALSE))>>),
        conclusion |-> "Batik Tulis",
        explanation |-> <<"Irregular hand-drawn strokes detected.",
                          "Wax traces visible suggesting manual canting.">>],
       [rule_type |-> "technique", priority |-> 20,
        conditions |-> CondObj(<<Entry("pattern_repeated", PyBool(TRUE)),
                                 Entry("wax_visible", PyBool(TRUE)),
                                 Entry("strokes_irregular", PyBool(FALSE))>>),
        conclusion |-> "Batik Cap",
        explanation |-> <<"Highly repetitive pattern and uniform wax marks indicate stamping (cap).">>],
       [rule_type |-> "technique", priority |-> 30,
        conditions |-> CondObj(<<Entry("wax_visible", PyBool(FALSE)),
                                 Entry("machine_like", PyBool(TRUE)),
                                 Entry("pattern_repeated", PyBool(TRUE))>>),
        conclusion |-> "Batik Print",
        explanation |-> <<"No wax traces and machine-like uniformity indicate printed batik.">>] >>

\* the Premium rule without its color_faded entry
QualityRulesPremiumIgnoresFaded ==
    << [rule_type |-> "quality", priority |-> 10,
        conditions |-> CondObj(<<Entry("color_sharp", PyBool(TRUE)),
                                 Entry("kain_halus", PyBool(TRUE)),
                                 Entry("defect_count", PyStr(LTE \o <<"1">>))>>),
        conclusion |-> "Premium",
        explanation |-> <<"Sharp color, smooth fabric, and minimal defects (<=1).">>],
       [rule_type |-> "quality", priority |-> 20,
        conditions |-> CondObj(<<Entry("color_faded", PyBool(TRUE))>>),
        conclusion |-> "Reject",
        explanation |-> <<"Color appears faded which significantly lowers quality.">>],
       [rule_type |-> "quality", priority |-> 25,
        conditions |-> CondObj(<<Entry("defect_count", PyStr(GTE \o <<"3">>))>>),
        conclusion |-> "Reject",
        explanation |-> <<"Multiple visible defects (>=3) make the product unacceptable.">>],
       [rule_type |-> "quality", priority |-> 100,
        conditions |-> CondObj(<<Entry("any", PyStr(ANY))>>),
        conclusion |-> "Standard",
        explanation |-> <<"Does not meet Premium criteria and not severe enough for Reject; hence Standard.">>] >>

QualityRules ==
    << [rule_type |-> "quality", priority |-> 10,
        conditions |-> CondObj(<<Entry("color_sharp", PyBool(TRUE)),
                                 Entry("color_faded", PyBool(FALSE)),
                                 Entry("kain_halus", PyBool(TRUE)),
                                 Entry("defect_count", PyStr(LTE \o <<"1">>))>>),
        conclusion |-> "Premium",
        explanation |-> <<"Sharp color, smooth fabric, and minimal defects (<=1).">>],
       [rule_type |-> "quality", priority |-> 20,
        conditions |-> CondObj(<<Entry("color_faded", PyBool(TRUE))>>),
        conclusion |-> "Reject",
        explanation |-> <<"Color appears faded which significantly lowers quality.">>],
       [rule_type |-> "quality", priority |-> 25,
        conditions |-> CondObj(<<Entry("defect_count", PyStr(GTE \o <<"3">>))>>),
        conclusion |-> "Reject",
        explanation |-> <<"Multiple visible defects (>=3) make the product unacceptable.">>],
       [rule_type |-> "quality", priority |-> 100,
        conditions |-> CondObj(<<Entry("any", PyStr(ANY))>>),
        conclusion |-> "Standard",
        explanation |-> <<"Does not meet Premium criteria and not severe enough for Reject; hence Standard.">>] >>

\* the id of the next inserted row (INTEGER PRIMARY KEY: largest id + 1)
NextId(rows) == IF rows = <<>> THEN 1 ELSE rows[Len(rows)].id + 1

\* db.session.add(Rule(...)) of one row, the texts being json.dumps of the values
Insert(rows, rule_type, priority, cond, conclusion, exp) ==
    Append(rows, [id |-> NextId(rows), rule_type |-> rule_type, priority |-> priority,
                  conditions |-> JsonDumps(cond), conclusion |-> conclusion,
                  explanation |-> JsonDumps(exp)])

RECURSIVE InsertAll(_, _)
InsertAll(rows, rs) ==
    IF rs = <<>> THEN rows
    ELSE InsertAll(Insert(rows, Head(rs).rule_type, Head(rs).priority, Head(rs).conditions,
                          Head(rs).conclusion, Head(rs).explanation),
                   Tail(rs))

\* seed_default_rules(): nothing when the table has a row
SeedDefaultRules(rows) ==
    IF Len(rows) > 0 THEN rows ELSE InsertAll(rows, TechniqueRules \o QualityRules)

SeedTable == SeedDefaultRules(<<>>)

----------------------------------------------------------------------------
(* The request handlers. *)

NoResp == [op |-> "none", status |-> 0, flash |-> "", arg |-> 0]

IdleCall ==
    [pc |-> "idle", rule_type |-> "", facts |-> [k \in {} |-> PyNone],
     defect_count |-> 0, read |-> <<>>, rules |-> <<>>, result |-> NoResult,
     read_at |-> 0, scan_at |-> 0]

IdleMatch ==
    [pc |-> "idle", conditions |-> CondObj(<<>>), facts |-> [k \in {} |-> PyNone],
     result |-> [raised |-> FALSE, value |-> FALSE]]

\* the form fields of index() and the fact each one sets
FormFields ==
    {"pattern_repeated", "strokes_irregular", "wax_visible", "machine_like",
     "color_sharp", "color_faded", "fabric_smooth"}

FactKey(field) == IF field = "fabric_smooth" THEN "kain_halus" ELSE field

\* facts of index(): rb(name) for every field; checked = the fields sent as yes/on
IndexFacts(checked) ==
    [k \in {FactKey(f) : f \in FormFields} |->
        PyBool(\E f \in checked : FactKey(f) = k)]

\* the forms posted to /rules: priority is the text of the field ("" = not given)
AddForms ==
    { [rule_type |-> "technique", priority |-> <<"5">>,
       conditions |-> JsonDumps(CondOther("list")),
       conclusion |-> "Custom", explanation |-> BadExpText("note")],
      [rule_type |-> "technique", priority |-> <<"2", "0">>,
       conditions |-> JsonDumps(CondObj(<<>>)),
       conclusion |-> "Custom", explanation |-> JsonDumps(<<>>)],
      [rule_type |-> "quality", priority |-> <<"2", "0">>,
       conditions |-> JsonDumps(CondObj(<<Entry("color_faded", PyBool(TRUE))>>)),
       conclusion |-> "Undetermined", explanation |-> BadExpText("note")],
      [rule_type |-> "quality", priority |-> <<>>,
       conditions |-> JsonDumps(CondOther("int")),
       conclusion |-> "Custom", explanation |-> JsonDumps(<<"a", "b">>)],
      [rule_type |-> "quality", priority |-> <<"5">>,
       conditions |-> BadCondText("{bad"),
       conclusion |-> "Custom", explanation |-> JsonDumps(<<>>)],
      [rule_type |-> "technique", priority |-> <<"x">>,
       conditions |-> JsonDumps(CondObj(<<>>)),
       conclusion |-> "Custom", explanation |-> JsonDumps(<<>>)] }

\* POST /rules
RulesPagePost ==
    /\ requests < MaxAdmin
    /\ \E form \in AddForms :
         LET prio == IF form.priority = <<>> THEN [ok |-> TRUE, n |-> 100]
                     ELSE Float(form.priority)
             cond == JsonLoads(form.conditions)
             exp == IF JsonLoads(form.explanation).ok THEN JsonLoads(form.explanation).v
                    ELSE <<form.explanation.raw>>
         IN  IF ~prio.ok
             THEN /\ resp' = [op |-> "add", status |-> 500, flash |-> "", arg |-> 0]
                  /\ table' = table
             ELSE IF ~cond.ok
             THEN /\ resp' = [op |-> "add", status |-> 302,
                              flash |-> "Conditions must be valid JSON.", arg |-> 0]
                  /\ table' = table
             ELSE /\ resp' = [op |-> "add", status |-> 302, flash |-> "Rule added.",
                              arg |-> NextId(table)]
                  /\ table' = Insert(table, form.rule_type, prio.n, cond.v,
                                     form.conclusion, exp)
    /\ requests' = requests + 1
    /\ UNCHANGED <<call, mc>>

\* db.session.delete(r) silently doing nothing
DeleteRowNoop(rows, rule_id) == rows

\* db.session.delete(r): the row of that id leaves the table
DeleteRow(rows, rule_id) ==
    LET i == CHOOSE j \in 1..Len(rows) : rows[j].id = rule_id
    IN  SubSeq(rows, 1, i - 1) \o SubSeq(rows, i + 1, Len(rows))

\* POST /rule/delete/<rule_id>
DeleteRule ==
    /\ requests < MaxAdmin
    /\ \E rule_id \in 1..(Len(SeedTable) + MaxAdmin) :
         IF \E j \in 1..Len(table) : table[j].id = rule_id
         THEN /\ table' = DeleteRow(table, rule_id)
              /\ resp' = [op |-> "delete", status |-> 302, flash |-> "Rule deleted.",
                          arg |-> rule_id]
         ELSE /\ table' = table
              /\ resp' = [op |-> "delete", status |-> 404, flash |-> "", arg |-> rule_id]
    /\ requests' = requests + 1
    /\ UNCHANGED <<call, mc>>

\* backward_chain, first statement: rules = load_rules(rule_type); read is the
\* table as the query saw it, read_at the number of add/delete requests served
\* by then
BackwardChainLoad(rule_type, facts, defect_count) ==
    /\ call.pc = "idle"
    /\ \E rules \in LoadRules(table, rule_type) :
         call' = [pc |-> "loaded", rule_type |-> rule_type, facts |-> facts,
                  defect_count |-> defect_count, read |-> table, rules |-> rules,
                  result |-> NoResult, read_at |-> requests, scan_at |-> requests]
    /\ UNCHANGED <<table, requests, resp, mc>>

\* the loop running over rows fetched from the table when the loop starts
BackwardChainScanReread ==
    /\ call.pc = "loaded"
    /\ \E rules \in LoadRules(table, call.rule_type) :
         call' = [call EXCEPT !.pc = "done",
                              !.result = BackwardChain(rules, call.facts,
                                                       call.defect_count),
                              !.scan_at = requests]
    /\ UNCHANGED <<table, requests, resp, mc>>

\* backward_chain, the loop and the return, over the list load_rules built;
\* scan_at is the number of add/delete requests served by then
BackwardChainScan ==
    /\ call.pc = "loaded"
    /\ call' = [call EXCEPT !.pc = "done",
                            !.result = BackwardChain(call.rules, call.facts,
                                                     call.defect_count),
                            !.scan_at = requests]
    /\ UNCHANGED <<table, requests, resp, mc>>

\* index() after backward_chain returned: the result goes into the history
\* record and the page, and the request ends
IndexRespond ==
    /\ call.pc = "done"
    /\ call' = IdleCall
    /\ UNCHANGED <<table, requests, resp, mc>>

\* a few submissions of the classification form
SampleInputs ==
    { [checked |-> {"strokes_irregular", "wax_visible"}, defect_count |-> 0],
      [checked |-> {"pattern_repeated", "wax_visible", "color_faded"}, defect_count |-> 3],
      [checked |-> {"color_sharp", "fabric_smooth"}, defect_count |-> 1],
      [checked |-> {}, defect_count |-> 2] }

\* every submission of the classification form
AllInputs ==
    [checked : SUBSET FormFields, defect_count : DefectCounts]

\* index(): one of the two backward_chain calls on the submitted facts, taken
\* up when no call is under way; the facts are built anew for every request
IndexSample ==
    /\ call.pc = "idle"
    /\ \E in \in SampleInputs, rule_type \in RuleTypes :
         BackwardChainLoad(rule_type, IndexFacts(in.checked), in.defect_count)

IndexAny ==
    /\ call.pc = "idle"
    /\ \E in \in AllInputs, rule_type \in RuleTypes :
         BackwardChainLoad(rule_type, IndexFacts(in.checked), in.defect_count)

----------------------------------------------------------------------------
(* Spec: the application from start-up on an empty database. *)

Init ==
    /\ table = SeedDefaultRules(<<>>)
    /\ requests = 0
    /\ resp = NoResp
    /\ call = IdleCall
    /\ mc = IdleMatch

Next == RulesPagePost \/ DeleteRule \/ IndexSample \/ BackwardChainScan \/ IndexRespond

Spec == Init /\ [][Next]_vars

(* SpecSeed: every classification against the seeded rules. *)

NextSeed == IndexAny \/ BackwardChainScan \/ IndexRespond

SpecSeed == Init /\ [][NextSeed]_vars

(* SpecStore: start-up on a database file that already holds rows, written   *)
(* by anything that can write the file; seed_default_rules keeps them.       *)

StoredConditions ==
    { BadCondText("{bad"),
      JsonDumps(CondObj(<<Entry("wax_visible", PyBool(TRUE))>>)),
      JsonDumps(CondObj(<<Entry("defect_count", PyStr(GTE \o <<"x">>))>>)) }

StoredExplanations == {JsonDumps(<<"stored">>), BadExpText("plain"), BadExpText("")}

StoredRows ==
    [rule_type : RuleTypes, priority : {10, 20}, conditions : StoredConditions,
     conclusion : {"Stored"}, explanation : StoredExplanations]

\* a stored table: the rows f[1], .., f[n] with ids in insertion order
StoredTable(f, n) ==
    [i \in 1..n |-> [id |-> i, rule_type |-> f[i].rule_type,
                     priority |-> f[i].priority,
                     conditions |-> f[i].conditions,
                     conclusion |-> f[i].conclusion,
                     explanation |-> f[i].explanation]]

\* start-up on a table of at most MaxStored stored rows
InitStore ==
    /\ \E n \in 0..MaxStored : \E f \in [1..n -> StoredRows] :
          table = SeedDefaultRules(StoredTable(f, n))
    /\ requests = 0
    /\ resp = NoResp
    /\ call = IdleCall
    /\ mc = IdleMatch

NextStore == IndexSample \/ BackwardChainScan \/ IndexRespond

SpecStore == InitStore /\ [][NextStore]_vars

(* SpecMatch: match_conditions on its own, on conditions and facts drawn     *)
(* from bounded sets.                                                        *)

MatchKeys == {"defect_count", "wax_visible"}

Specifiers ==
    {PyStr(ANY), PyBool(TRUE), PyBool(FALSE), PyInt(3), PyNone,
     PyStr(<<"N", "o", "n", "e">>), PyStr(<<"T", "r", "u", "e">>), PyStr(<<"3">>),
     PyStr(GTE \o <<"x">>), PyStr(LTE)}
    \cup {PyStr(GTE \o Str(PyInt(T))) : T \in Thresholds}
    \cup {PyStr(LTE \o Str(PyInt(T))) : T \in Thresholds}

\* the conditions maps of one entry, and of two entries with different keys
MatchConds ==
    {CondObj(<<>>)}
    \cup {CondObj(<<Entry(k, v)>>) : k \in MatchKeys, v \in Specifiers}
    \cup {CondObj(<<Entry("wax_visible", v), Entry("defect_count", w)>>) :
            v \in {PyBool(TRUE), PyStr(ANY)}, w \in Specifiers}

\* the fact sets: each key absent or present
MatchFacts ==
    UNION { [K -> {PyBool(TRUE), PyBool(FALSE)} \cup {PyInt(n) : n \in DefectCounts}]
            : K \in SUBSET MatchKeys }

InitMatch ==
    /\ table = <<>>
    /\ requests = 0
    /\ resp = NoResp
    /\ call = IdleCall
    /\ mc \in {[pc |-> "called", conditions |-> c, facts |-> f,
                result |-> [raised |-> FALSE, value |-> FALSE]]
               : c \in MatchConds, f \in MatchFacts}

\* one call of match_conditions(conditions, facts)
MatchConditionsCall ==
    /\ mc.pc = "called"
    /\ mc' = [mc EXCEPT !.pc = "returned",
                        !.result = MatchConditions(mc.conditions, mc.facts)]
    /\ UNCHANGED <<table, requests, resp, call>>

SpecMatch == InitMatch /\ [][MatchConditionsCall]_vars

----------------------------------------------------------------------------
(* What the claims speak about. *)

Done == call.pc = "done"

\* the rules of the requested category in the table as backward_chain read it
CategoryRules == {RuleOf(r) : r \in RowsOfType(call.read, call.rule_type)}

\* the rule's conditions are satisfied by the facts augmented with defect_count
Satisfied(rule) ==
    LET m == MatchConditions(rule.conditions, Enrich(call.facts, call.defect_count))
    IN  ~m.raised /\ m.value

Matching == {r \in CategoryRules : Satisfied(r)}

IsRuleResult(r) ==
    /\ call.result.status = "ok"
    /\ call.result.rule = r.id
    /\ call.result.conclusion = r.conclusion
    /\ call.result.explanation = r.explanation

\* C1: whenever some rule of the requested category is satisfied by the facts,
\* backward_chain returns the conclusion and explanation of a satisfied rule of
\* that category whose priority number is the lowest among the satisfied ones.
C1_LowestPriorityWins ==
    (Done /\ Matching # {}) =>
        \E r \in Matching :
            /\ \A q \in Matching : r.priority <= q.priority
            /\ IsRuleResult(r)

\* the same statement for the tables whose rules of the category all have a
\* JSON object as conditions
LowestPriorityWinsAmongObjects ==
    (\A r \in CategoryRules : r.conditions.t = "obj") => C1_LowestPriorityWins

\* C2: a stored rule whose conditions text cannot be parsed is never the rule
\* backward_chain returns, and the call still ends with a result.
C2_MalformedNeverMatches ==
    Done =>
        /\ call.result.status = "ok"
        /\ \A i \in 1..Len(call.read) :
              ~call.read[i].conditions.ok => call.result.rule # call.read[i].id

\* C3: backward_chain always returns a (conclusion, explanation) pair, on every
\* table that seeding and add-rule can produce.
C3_AlwaysReturnsPair == Done => call.result.status = "ok"

\* C4: match_conditions returns false whenever an entry other than "any" (a
\* boolean or a string) has a key that is absent from the facts.
C4_AbsentFactFails ==
    (/\ mc.pc = "returned"
     /\ \E i \in 1..Len(mc.conditions.items) :
           /\ mc.conditions.items[i].v.t \in {"bool", "str"}
           /\ mc.conditions.items[i].v # PyStr(ANY)
           /\ mc.conditions.items[i].k \notin DOMAIN mc.facts)
    => (~mc.result.raised /\ ~mc.result.value)

\* C5: backward_chain returns "Undetermined" with an explanation of exactly one
\* entry if and only if no rule of the requested category matches the facts.
C5_UndeterminedIffNoMatch ==
    Done =>
        ((/\ call.result.status = "ok"
          /\ call.result.conclusion = "Undetermined"
          /\ Len(call.result.explanation) = 1)
         <=> Matching = {})

\* ascending priority and, among equal priorities, insertion (id) order
FirstInserted(S) == {r \in S : \A q \in S : r.id <= q.id}

RECURSIVE OrderByPriorityThenId(_)
OrderByPriorityThenId(S) ==
    IF S = {} THEN <<>>
    ELSE LET r == CHOOSE q \in FirstInserted(MinPriority(S)) : TRUE
         IN  <<r>> \o OrderByPriorityThenId(S \ {r})

\* C6: the rules are evaluated in ascending priority and, among equal
\* priorities, in insertion order, so the result is a function of the table and
\* the facts.
C6_StableEvaluationOrder ==
    LET stable == MapRuleOf(OrderByPriorityThenId(RowsOfType(call.read, call.rule_type)))
    IN  /\ call.pc \in {"loaded", "done"} => call.rules = stable
        /\ Done => call.result = BackwardChain(stable, call.facts, call.defect_count)

\* C7: delete_rule with an id that is not in the table answers not-found and
\* leaves the table unchanged; with an id that is in the table it removes exactly
\* that row and keeps the other rows in their order.
C7_DeleteRule ==
    [][(requests' = requests + 1 /\ resp'.op = "delete") =>
        LET rule_id == resp'.arg
        IN  IF \A j \in 1..Len(table) : table[j].id # rule_id
            THEN resp'.status = 404 /\ table' = table
            ELSE /\ resp'.status = 302
                 /\ Len(table') = Len(table) - 1
                 /\ table' = SelectSeq(table, LAMBDA r : r.id # rule_id)]_vars

\* a delete of an absent id answered not-found after a delete that removed a row
C7_Witness ==
    /\ resp.op = "delete"
    /\ resp.status = 404
    /\ Len(table) = Len(SeedTable) - 1

\* C8: for the single entry defect_count: "gte:T" (resp. "lte:T"), T an
\* integer, match_conditions returns true exactly when defect_count >= T
\* (resp. <= T): "gte:3" matches 3 and 4 and not 2, "lte:1" matches 0 and 1 and
\* not 2.
C8_BoundsInclusive ==
    mc.pc = "returned" =>
        \A v \in DefectCounts :
            ("defect_count" \in DOMAIN mc.facts /\ mc.facts["defect_count"] = PyInt(v)) =>
                /\ \A T \in Thresholds :
                      /\ mc.conditions = CondObj(<<Entry("defect_count", PyStr(GTE \o Str(PyInt(T))))>>)
                            => mc.result = [raised |-> FALSE, value |-> v >= T]
                      /\ mc.conditions = CondObj(<<Entry("defect_count", PyStr(LTE \o Str(PyInt(T))))>>)
                            => mc.result = [raised |-> FALSE, value |-> v <= T]
                /\ mc.conditions = CondObj(<<Entry("defect_count", PyStr(<<"g", "t", "e", ":", "3">>))>>)
                      => /\ v \in {3, 4} => mc.result.value
                         /\ v = 2 => ~mc.result.value
                /\ mc.conditions = CondObj(<<Entry("defect_count", PyStr(<<"l", "t", "e", ":", "1">>))>>)
                      => /\ v \in {0, 1} => mc.result.value
                         /\ v = 2 => ~mc.result.value

\* "gte:3" has matched defect_count = 3
C8_Witness ==
    /\ mc.pc = "returned"
    /\ mc.conditions = CondObj(<<Entry("defect_count", PyStr(<<"g", "t", "e", ":", "3">>))>>)
    /\ "defect_count" \in DOMAIN mc.facts
    /\ mc.facts["defect_count"] = PyInt(3)
    /\ mc.result.value

\* C9: against the seeded technique rules, facts with wax_visible = false and
\* machine_like = true are classified "Batik Print".
C9_PrintWithoutWax ==
    (/\ Done
     /\ call.read = SeedTable
     /\ call.rule_type = "technique"
     /\ call.facts["wax_visible"] = PyBool(FALSE)
     /\ call.facts["machine_like"] = PyBool(TRUE))
    => (call.result.status = "ok" /\ call.result.conclusion = "Batik Print")

\* C10: against the seeded quality rules, facts with color_faded = true are
\* classified "Reject", whatever the other observations and defect_count.
C10_FadedIsReject ==
    (/\ Done
     /\ call.read = SeedTable
     /\ call.rule_type = "quality"
     /\ call.facts["color_faded"] = PyBool(TRUE))
    => (call.result.status = "ok" /\ call.result.conclusion = "Reject")

\* a faded sample with sharp color, smooth fabric and no defect was rejected
C10_Witness ==
    /\ Done
    /\ call.read = SeedTable
    /\ call.rule_type = "quality"
    /\ call.facts["color_faded"] = PyBool(TRUE)
    /\ call.facts["color_sharp"] = PyBool(TRUE)
    /\ call.facts["kain_halus"] = PyBool(TRUE)
    /\ call.defect_count = 0
    /\ call.result.conclusion = "Reject"

\* the results of backward_chain run alone on the table rows
ResultsAlone(rows, rule_type, facts, defect_count) ==
    {BackwardChain(rules, facts, defect_count) : rules \in LoadRules(rows, rule_type)}

\* C11: a classification evaluates the rules as they were read at the start of
\* backward_chain: the read takes the whole table of that moment, an add-rule
\* or delete-rule request served after the read leaves the loaded rules alone,
\* the loop runs over the loaded rules, and the result is a result of the
\* classification run alone on the table as it was at the read.
C11_SnapshotEvaluation ==
    /\ [](Done => /\ call.rules \in LoadRules(call.read, call.rule_type)
                  /\ call.result = BackwardChain(call.rules, call.facts, call.defect_count)
                  /\ call.result \in ResultsAlone(call.read, call.rule_type,
                                                  call.facts, call.defect_count))
    /\ [][/\ (call.pc = "idle" /\ call'.pc = "loaded") =>
                (call'.read = table /\ call'.rules \in LoadRules(table, call'.rule_type))
          /\ (call.pc = "loaded" /\ requests' # requests) => call' = call
          /\ (call.pc = "loaded" /\ call'.pc = "done") =>
                /\ call'.rules = call.rules
                /\ call'.read = call.read
                /\ call'.result = BackwardChain(call.rules, call.facts, call.defect_count)]_vars

\* a classification whose read was followed by an add or delete before its loop
\* ran, and whose result the table of the loop's moment could not have given
C11_Witness ==
    /\ Done
    /\ call.scan_at > call.read_at
    /\ requests = call.scan_at
    /\ table # call.read
    /\ call.result \notin ResultsAlone(table, call.rule_type, call.facts, call.defect_count)

\* the specifiers that are none of the five documented shapes
OtherShapes == {PyInt(3), PyNone}

\* C12: an entry whose specifier is a number or null is always satisfied,
\* whatever the fact and also when the fact is absent: a map with only such an
\* entry matches every fact set, and after another entry it leaves the outcome
\* of that entry as the result.
C12_OtherShapeAlwaysSatisfied ==
    mc.pc = "returned" =>
        /\ \A k \in MatchKeys, v \in OtherShapes :
              mc.conditions = CondObj(<<Entry(k, v)>>)
                  => mc.result = [raised |-> FALSE, value |-> TRUE]
        /\ (Len(mc.conditions.items) = 2 /\ mc.conditions.items[2].v \in OtherShapes)
              => /\ ~mc.result.raised
                 /\ mc.result.value =
                       \/ mc.conditions.items[1].v = PyStr(ANY)
                       \/ /\ mc.conditions.items[1].v = PyBool(TRUE)
                          /\ mc.conditions.items[1].k \in DOMAIN mc.facts
                          /\ PyNum(mc.facts[mc.conditions.items[1].k]) = 1

\* the map {defect_count: 3} has matched a fact set without defect_count
C12_Witness ==
    /\ mc.pc = "returned"
    /\ mc.conditions = CondObj(<<Entry("defect_count", PyInt(3))>>)
    /\ "defect_count" \notin DOMAIN mc.facts
    /\ mc.result.value

====
